---- MODULE Spec2Model ----
(***************************************************************************)
(* Movie-booking backend (src/main.py, src/schemas.py): four collections   *)
(* of a document store, the request handlers that write them and the two   *)
(* listings that expand references.  A handler that makes several store    *)
(* calls is one action per store call: requests are served concurrently    *)
(* (plain "def" endpoints run on a thread pool) and every store call is    *)
(* atomic on its own, so the calls of different requests interleave.       *)
(*                                                                         *)
(* Left out: the created_at / updated_at timestamps (no handler reads      *)
(* them), the poster upload and the diagnostic endpoints.                  *)
(***************************************************************************)
EXTENDS Integers, Sequences, FiniteSets, Bags, TLC

VARIABLES
    movie,            \* db["movie"]    : ObjectId -> document
    theater,          \* db["theater"]  : ObjectId -> document
    showtime,         \* db["showtime"] : ObjectId -> document
    booking,          \* db["booking"]  : ObjectId -> document
    showtime_calls,   \* bag of create_showtime activations in flight
    booking_calls,    \* bag of create_booking activations in flight
    resp,             \* the response of the request that finished last
    created,          \* history: showtime id -> seats_available it was inserted with
    out               \* the result of the last listing

vars == <<movie, theater, showtime, booking, showtime_calls, booking_calls, resp, created, out>>

----------------------------------------------------------------------------
(* Bounds of the model *)

\* Showtimes stored or being created, bookings stored or being made: a
\* request is accepted only while its collection has room for its document.
MaxShowtimes == 1
MaxBookings == 2
\* The largest seat count a client sends.
MaxSeats == 2

----------------------------------------------------------------------------
(* Values *)

\* Python None / a present value: Optional[T] is a sequence of length <= 1.
None == <<>>
Some(x) == <<x>>

\* An ObjectId: opaque and unique over the whole store.  It is modelled as
\* the collection it was generated for and that collection's insertion count.
ObjectId(coll_name, n) == [coll |-> coll_name, n |-> n]

\* A well-formed ObjectId the store never hands out (counts start at 1).
NoSuchOid == ObjectId("", 0)

\* An id string as a client sends it: either the 24 hex digits of an ObjectId
\* (hex = TRUE, oid = the ObjectId they spell) or anything else.
IdStr(oid) == [hex |-> TRUE, oid |-> oid]
NotHex == [hex |-> FALSE, oid |-> NoSuchOid]

Titles == {"Dune"}
Names == {"Grand"}
Locations == {"Downtown"}
Customers == {"Alice"}
StartTimes == {"2025-01-01T18:00:00Z"}

\* str(ObjectId)
str(oid) == IdStr(oid)

\* get_objectid: the ObjectId of an id string, None where the code raises
\* HTTPException(400, "Invalid ID format").
get_objectid(id_str) == IF id_str.hex THEN Some(id_str.oid) ELSE None

\* insert_one generates a fresh ObjectId: no document is ever deleted, so the
\* number of documents the collection holds identifies its next one.
NewObjectId(coll_name, coll) == ObjectId(coll_name, Cardinality(DOMAIN coll) + 1)

\* collection.insert_one(doc) with the generated id
insert_one(coll, oid, doc) == [i \in DOMAIN coll \cup {oid} |-> IF i = oid THEN doc ELSE coll[i]]

\* collection.count_documents({"_id": oid}, limit=1)
count_documents(coll, oid) == IF oid \in DOMAIN coll THEN 1 ELSE 0

\* collection.find_one({"_id": oid}): the document, or None
find_one(coll, oid) == IF oid \in DOMAIN coll THEN Some(coll[oid]) ELSE None

\* HTTP responses
Ok(op, oid) == [op |-> op, status |-> 200, detail |-> "", id |-> Some(str(oid))]
HTTPException(op, status, detail) == [op |-> op, status |-> status, detail |-> detail, id |-> None]
\* FastAPI's answer to a body the pydantic model rejects
RequestValidationError(op) == HTTPException(op, 422, "validation error")

Add(bag, f) == bag (+) SetToBag({f})
Remove(bag, f) == bag (-) SetToBag({f})

\* The id strings a client sends for a reference into coll: the ids the store
\* handed out for it, a well-formed id it never handed out, and a string
\* that is no ObjectId.
IdInputs(coll) == {str(i) : i \in DOMAIN coll} \cup {str(NoSuchOid), NotHex}

\* Room for one more document in the collection (the bounds of the model).
ShowtimeRoom == Cardinality(DOMAIN showtime) + BagCardinality(showtime_calls) < MaxShowtimes
BookingRoom == Cardinality(DOMAIN booking) + BagCardinality(booking_calls) < MaxBookings

----------------------------------------------------------------------------
(* schemas.py: the pydantic models' field constraints *)

\* Showtime: total_seats >= 1, seats_available None or >= 0
ShowtimeValid(data) ==
    /\ data.total_seats >= 1
    /\ (data.seats_available # None => data.seats_available[1] >= 0)

\* Booking: seats >= 1
BookingValid(data) == data.seats >= 1

----------------------------------------------------------------------------
(* POST /movies, POST /theaters: one insert each.  The model creates each  *)
(* title and each theater name once: the other handlers read of a movie or *)
(* a theater only whether it exists and its display fields.                *)

create_movie ==
    /\ \E title \in Titles \ {movie[i].title : i \in DOMAIN movie} :
        /\ movie' = insert_one(movie, NewObjectId("movie", movie), [title |-> title])
        /\ resp' = Ok("create_movie", NewObjectId("movie", movie))
    /\ UNCHANGED <<theater, showtime, booking, showtime_calls, booking_calls, created, out>>

create_theater ==
    /\ \E name \in Names \ {theater[i].name : i \in DOMAIN theater}, location \in Locations :
        /\ theater' = insert_one(theater, NewObjectId("theater", theater),
                                 [name |-> name, location |-> location])
        /\ resp' = Ok("create_theater", NewObjectId("theater", theater))
    /\ UNCHANGED <<movie, showtime, booking, showtime_calls, booking_calls, created, out>>

----------------------------------------------------------------------------
(* POST /showtimes *)

\* The bodies a client sends with a movie_id of movie_ids.  total_seats: one
\* below the minimum, the minimum, the largest count; seats_available:
\* absent, one below the minimum, the minimum, the largest.
ShowtimeBodies(movie_ids) ==
    [movie_id : movie_ids, theater_id : IdInputs(theater), start_time : StartTimes,
     total_seats : {0, 1, MaxSeats},
     seats_available : {None} \cup {Some(n) : n \in {-1, 0, MaxSeats}}]

\* The bodies a client sends.
ShowtimeInputs == ShowtimeBodies(IdInputs(movie))

\* The request arrives and runs up to its first store call.  FastAPI
\* validates the body against Showtime and, when it passes, calls
\* create_showtime(showtime); line 134: get_objectid(movie_id), then
\* movie_exists = db["movie"].count_documents(...).
showtime_count_movie(data) ==
    /\ ShowtimeRoom
    /\ LET oid == get_objectid(data.movie_id)
       IN  IF ~ShowtimeValid(data)
           THEN /\ resp' = RequestValidationError("create_showtime")
                /\ UNCHANGED showtime_calls
           ELSE IF oid = None
           THEN /\ resp' = HTTPException("create_showtime", 400, "Invalid ID format")
                /\ UNCHANGED showtime_calls
           ELSE /\ showtime_calls' = Add(showtime_calls,
                       [pc |-> "count_theater", data |-> data,
                        movie_exists |-> count_documents(movie, oid[1])])
                /\ UNCHANGED resp
    /\ UNCHANGED <<movie, theater, showtime, booking, booking_calls, created, out>>

\* Mutant of showtime_count_theater: "and" for "or" in the check of line 136.
showtime_count_theater_and(f) ==
    /\ f.pc = "count_theater"
    /\ LET oid == get_objectid(f.data.theater_id)
       IN  IF oid = None
           THEN /\ resp' = HTTPException("create_showtime", 400, "Invalid ID format")
                /\ showtime_calls' = Remove(showtime_calls, f)
           ELSE IF f.movie_exists = 0 /\ count_documents(theater, oid[1]) = 0
           THEN /\ resp' = HTTPException("create_showtime", 400, "Invalid movie_id or theater_id")
                /\ showtime_calls' = Remove(showtime_calls, f)
           ELSE /\ showtime_calls' = Add(Remove(showtime_calls, f), [f EXCEPT !.pc = "insert"])
                /\ UNCHANGED resp
    /\ UNCHANGED <<movie, theater, showtime, booking, booking_calls, created, out>>

\* lines 135-137: theater_exists = db["theater"].count_documents(...), then the check
showtime_count_theater(f) ==
    /\ f.pc = "count_theater"
    /\ LET oid == get_objectid(f.data.theater_id)
       IN  IF oid = None
           THEN /\ resp' = HTTPException("create_showtime", 400, "Invalid ID format")
                /\ showtime_calls' = Remove(showtime_calls, f)
           ELSE IF f.movie_exists = 0 \/ count_documents(theater, oid[1]) = 0
           THEN /\ resp' = HTTPException("create_showtime", 400, "Invalid movie_id or theater_id")
                /\ showtime_calls' = Remove(showtime_calls, f)
           ELSE /\ showtime_calls' = Add(Remove(showtime_calls, f), [f EXCEPT !.pc = "insert"])
                /\ UNCHANGED resp
    /\ UNCHANGED <<movie, theater, showtime, booking, booking_calls, created, out>>

\* Mutant of showtime_doc: seats_available defaults to 0.
showtime_doc_zero(data) ==
    [movie_id |-> get_objectid(data.movie_id)[1],
     theater_id |-> get_objectid(data.theater_id)[1],
     start_time |-> data.start_time,
     total_seats |-> data.total_seats,
     seats_available |-> IF data.seats_available = None THEN 0 ELSE data.seats_available[1]]

\* lines 139-146: the document that is stored
showtime_doc(data) ==
    [movie_id |-> get_objectid(data.movie_id)[1],
     theater_id |-> get_objectid(data.theater_id)[1],
     start_time |-> data.start_time,
     total_seats |-> data.total_seats,
     seats_available |-> IF data.seats_available = None
                         THEN data.total_seats
                         ELSE data.seats_available[1]]

\* lines 148-149: db["showtime"].insert_one(data)
showtime_insert(f) ==
    /\ f.pc = "insert"
    /\ showtime' = insert_one(showtime, NewObjectId("showtime", showtime), showtime_doc(f.data))
    /\ created' = insert_one(created, NewObjectId("showtime", showtime),
                             showtime_doc(f.data).seats_available)
    /\ showtime_calls' = Remove(showtime_calls, f)
    /\ resp' = Ok("create_showtime", NewObjectId("showtime", showtime))
    /\ UNCHANGED <<movie, theater, booking, booking_calls, out>>

----------------------------------------------------------------------------
(* POST /bookings *)

\* The bodies a client sends.
BookingInputs ==
    [showtime_id : IdInputs(showtime), customer_name : Customers, seats : 0..MaxSeats]

\* Mutant of available_of: the check reads the showtime's capacity.
available_of_total(st) == st.total_seats

\* line 204: available = int(st.get("seats_available", 0))
available_of(st) == st.seats_available

\* Mutant of booking_find: the "if not st" check of lines 200-201 is missing,
\* so st.get fails on None and the request ends in a server error.
booking_find_unchecked(data) ==
    /\ BookingRoom
    /\ LET showtime_oid == get_objectid(data.showtime_id)
           st == find_one(showtime, showtime_oid[1])
           seats == data.seats
           available == available_of(st[1])
           fail(r) == resp' = r /\ UNCHANGED booking_calls
       IN  IF ~BookingValid(data) THEN fail(RequestValidationError("create_booking"))
           ELSE IF showtime_oid = None
           THEN fail(HTTPException("create_booking", 400, "Invalid ID format"))
           ELSE IF st = None
           THEN fail(HTTPException("create_booking", 500, "Internal Server Error"))
           ELSE IF seats <= 0
           THEN fail(HTTPException("create_booking", 400, "Seats must be greater than 0"))
           ELSE IF seats > available
           THEN fail(HTTPException("create_booking", 400, "Not enough seats available"))
           ELSE /\ booking_calls' = Add(booking_calls,
                       [pc |-> "insert", data |-> data, available |-> available,
                        result |-> NoSuchOid])
                /\ UNCHANGED resp
    /\ UNCHANGED <<movie, theater, showtime, booking, showtime_calls, created, out>>

\* The request arrives and runs up to its first store call and the checks on
\* what it read.  FastAPI validates the body against Booking and, when it
\* passes, calls create_booking(booking); lines 196-208: parse the id, read
\* the showtime, check the seat count.
booking_find(data) ==
    /\ BookingRoom
    /\ LET showtime_oid == get_objectid(data.showtime_id)
           st == find_one(showtime, showtime_oid[1])
           seats == data.seats
           available == available_of(st[1])
           fail(r) == resp' = r /\ UNCHANGED booking_calls
       IN  IF ~BookingValid(data) THEN fail(RequestValidationError("create_booking"))
           ELSE IF showtime_oid = None
           THEN fail(HTTPException("create_booking", 400, "Invalid ID format"))
           ELSE IF st = None
           THEN fail(HTTPException("create_booking", 404, "Showtime not found"))
           ELSE IF seats <= 0
           THEN fail(HTTPException("create_booking", 400, "Seats must be greater than 0"))
           ELSE IF seats > available
           THEN fail(HTTPException("create_booking", 400, "Not enough seats available"))
           ELSE /\ booking_calls' = Add(booking_calls,
                       [pc |-> "insert", data |-> data, available |-> available,
                        result |-> NoSuchOid])
                /\ UNCHANGED resp
    /\ UNCHANGED <<movie, theater, showtime, booking, showtime_calls, created, out>>

\* lines 211-217: booking_doc
booking_doc(f) ==
    [showtime_id |-> get_objectid(f.data.showtime_id)[1],
     customer_name |-> f.data.customer_name,
     seats |-> f.data.seats]

\* Mutant of booking_insert: the decrement is issued first, the insert after it.
booking_insert_late(f) ==
    /\ f.pc = "insert"
    /\ showtime' = [i \in DOMAIN showtime |->
            IF i = get_objectid(f.data.showtime_id)[1]
            THEN [showtime[i] EXCEPT !.seats_available = @ - f.data.seats]
            ELSE showtime[i]]
    /\ booking_calls' = Add(Remove(booking_calls, f), [f EXCEPT !.pc = "update"])
    /\ UNCHANGED <<movie, theater, booking, showtime_calls, resp, created, out>>

\* line 218: result = db["booking"].insert_one(booking_doc)
booking_insert(f) ==
    /\ f.pc = "insert"
    /\ booking' = insert_one(booking, NewObjectId("booking", booking), booking_doc(f))
    /\ booking_calls' = Add(Remove(booking_calls, f),
            [f EXCEPT !.pc = "update", !.result = NewObjectId("booking", booking)])
    /\ UNCHANGED <<movie, theater, showtime, showtime_calls, resp, created, out>>

\* Mutant of update_one_inc: the filter also asks for enough seats
\* ({"seats_available": {"$gte": seats}}), so an oversold decrement matches nothing.
update_one_inc_guarded(coll, oid, amount) ==
    [i \in DOMAIN coll |->
        IF i = oid /\ coll[i].seats_available + amount >= 0
        THEN [coll[i] EXCEPT !.seats_available = coll[i].seats_available + amount]
        ELSE coll[i]]

\* Mutant of update_one_inc: the sign of the increment is lost.
update_one_inc_plus(coll, oid, amount) ==
    [i \in DOMAIN coll |->
        IF i = oid
        THEN [coll[i] EXCEPT !.seats_available = coll[i].seats_available - amount]
        ELSE coll[i]]

\* update_one({"_id": oid}, {"$inc": {"seats_available": -seats}, ...}): the
\* store adds to the field's current value in one atomic step; a filter that
\* matches nothing updates nothing.
update_one_inc(coll, oid, amount) ==
    [i \in DOMAIN coll |->
        IF i = oid
        THEN [coll[i] EXCEPT !.seats_available = coll[i].seats_available + amount]
        ELSE coll[i]]

\* Mutant of booking_update: read-modify-write in the handler ("$set" of the
\* value read at line 204 minus the seats) instead of the store's "$inc".
booking_update_set(f) ==
    /\ f.pc = "update"
    /\ showtime' = [i \in DOMAIN showtime |->
            IF i = get_objectid(f.data.showtime_id)[1]
            THEN [showtime[i] EXCEPT !.seats_available = f.available - f.data.seats]
            ELSE showtime[i]]
    /\ booking_calls' = Remove(booking_calls, f)
    /\ resp' = Ok("create_booking", f.result)
    /\ UNCHANGED <<movie, theater, booking, showtime_calls, created, out>>

\* lines 221-225: decrement the seats, answer with the booking's id
booking_update(f) ==
    /\ f.pc = "update"
    /\ showtime' = update_one_inc(showtime, get_objectid(f.data.showtime_id)[1], -f.data.seats)
    /\ booking_calls' = Remove(booking_calls, f)
    /\ resp' = Ok("create_booking", f.result)
    /\ UNCHANGED <<movie, theater, booking, showtime_calls, created, out>>

----------------------------------------------------------------------------
(* GET /showtimes, GET /bookings.  A listing reads the collection with one  *)
(* find() and then looks each reference up on its own; it writes nothing.   *)

\* list(collection.find()): the ids of the documents in the store's natural
\* (insertion) order.
RECURSIVE find(_)
find(ids) ==
    IF ids = {} THEN <<>>
    ELSE LET first == CHOOSE i \in ids : \A j \in ids : i.n <= j.n
         IN  <<first>> \o find(ids \ {first})

\* (doc or {}).get(key): None when the lookup found nothing
get(found, key) == IF found = None THEN None ELSE Some(found[1][key])

\* Mutant of showtime_out: the movie is looked up under the theater's id.
showtime_out_swapped(oid, d) ==
    LET movie_found == find_one(movie, d.theater_id)
        theater_found == find_one(theater, d.theater_id)
    IN  [id |-> str(oid),
         movie_id |-> str(d.movie_id),
         theater_id |-> str(d.theater_id),
         start_time |-> d.start_time,
         total_seats |-> d.total_seats,
         seats_available |-> d.seats_available,
         movie_title |-> get(movie_found, "title"),
         theater_name |-> get(theater_found, "name"),
         theater_location |-> get(theater_found, "location")]

\* lines 169-189: one ShowtimeOut
showtime_out(oid, d) ==
    LET movie_found == find_one(movie, d.movie_id)
        theater_found == find_one(theater, d.theater_id)
    IN  [id |-> str(oid),
         movie_id |-> str(d.movie_id),
         theater_id |-> str(d.theater_id),
         start_time |-> d.start_time,
         total_seats |-> d.total_seats,
         seats_available |-> d.seats_available,
         movie_title |-> get(movie_found, "title"),
         theater_name |-> get(theater_found, "name"),
         theater_location |-> get(theater_found, "location")]

\* lines 233-242: one entry of the booking listing: the stored document with
\* "_id" replaced by "id" (str_id) and the two expanded fields added; its
\* showtime_id stays the ObjectId the document holds.
booking_out(oid, d) ==
    LET st == find_one(showtime, d.showtime_id)
        movie_found == IF st = None THEN None ELSE find_one(movie, st[1].movie_id)
        theater_found == IF st = None THEN None ELSE find_one(theater, st[1].theater_id)
    IN  [id |-> str(oid),
         showtime_id |-> d.showtime_id,
         customer_name |-> d.customer_name,
         seats |-> d.seats,
         movie_title |-> get(movie_found, "title"),
         theater_name |-> get(theater_found, "name")]

Listing(op, entries) == [op |-> op, status |-> 200, body |-> entries]

list_showtimes ==
    /\ LET docs == find(DOMAIN showtime)
       IN  out' = Listing("list_showtimes",
                          [k \in 1..Len(docs) |-> showtime_out(docs[k], showtime[docs[k]])])
    /\ UNCHANGED <<movie, theater, showtime, booking, showtime_calls, booking_calls, resp, created>>

list_bookings ==
    /\ LET docs == find(DOMAIN booking)
       IN  out' = Listing("list_bookings",
                          [k \in 1..Len(docs) |-> booking_out(docs[k], booking[docs[k]])])
    /\ UNCHANGED <<movie, theater, showtime, booking, showtime_calls, booking_calls, resp, created>>

----------------------------------------------------------------------------

NoResponse == [op |-> "", status |-> 0, detail |-> "", id |-> None]
NoListing == [op |-> "", status |-> 0, body |-> <<>>]

Init ==
    /\ movie = <<>>
    /\ theater = <<>>
    /\ showtime = <<>>
    /\ booking = <<>>
    /\ showtime_calls = EmptyBag
    /\ booking_calls = EmptyBag
    /\ resp = NoResponse
    /\ created = <<>>
    /\ out = NoListing

Next ==
    \/ create_movie
    \/ create_theater
    \/ \E data \in ShowtimeInputs : showtime_count_movie(data)
    \/ \E f \in BagToSet(showtime_calls) : showtime_count_theater(f)
    \/ \E f \in BagToSet(showtime_calls) : showtime_insert(f)
    \/ \E data \in BookingInputs : booking_find(data)
    \/ \E f \in BagToSet(booking_calls) : booking_insert(f)
    \/ \E f \in BagToSet(booking_calls) : booking_update(f)

Spec == Init /\ [][Next]_vars

----------------------------------------------------------------------------
(* The listings over the stores they can meet.  A listing is a function of  *)
(* the store's content alone: the documents these handlers wrote, in a      *)
(* store that other clients share, so that a referenced movie, theater or   *)
(* showtime may be gone.                                                    *)

\* Documents per collection a listed store holds at most.
MaxListed == 2

StoredMovies == [n \in 1..2 |-> [title |-> <<"Dune", "Heat">>[n]]]
StoredTheaters ==
    [n \in 1..2 |-> [name |-> <<"Grand", "Rex">>[n], location |-> <<"Downtown", "Uptown">>[n]]]

\* The collection that holds documents docs[n] under the ids of ns.
Collection(coll_name, ns, docs) ==
    [oid \in {ObjectId(coll_name, n) : n \in ns} |-> docs[oid.n]]

InitList ==
    /\ \E ns \in SUBSET (1..2) : movie = Collection("movie", ns, StoredMovies)
    /\ \E ns \in SUBSET (1..2) : theater = Collection("theater", ns, StoredTheaters)
    /\ \E ns \in SUBSET (1..MaxListed) :
          \E docs \in [ns -> [movie_id : {ObjectId("movie", n) : n \in 1..2},
                              theater_id : {ObjectId("theater", n) : n \in 1..2},
                              start_time : StartTimes,
                              total_seats : {1},
                              seats_available : {1}]] :
             /\ showtime = Collection("showtime", ns, docs)
             /\ created = [oid \in DOMAIN showtime |-> showtime[oid].seats_available]
    /\ \E k \in 0..MaxListed :
          \E docs \in [1..k -> [showtime_id : {ObjectId("showtime", n) : n \in 1..MaxListed},
                                customer_name : Customers,
                                seats : {1}]] :
             booking = Collection("booking", 1..k, docs)
    /\ showtime_calls = EmptyBag
    /\ booking_calls = EmptyBag
    /\ resp = NoResponse
    /\ out = NoListing

NextList ==
    \/ list_showtimes
    \/ list_bookings

SpecList == InitList /\ [][NextList]_vars

----------------------------------------------------------------------------
(* Vocabulary of the properties *)

\* The showtime a create_booking activation is about.
ShowtimeOf(f) == get_objectid(f.data.showtime_id)[1]

\* An id string that spells the id of a document of coll.
References(id_str, coll) == id_str.hex /\ id_str.oid \in DOMAIN coll

\* The bookings stored for showtime s, and the seats they add up to.
BookingsOf(s) == {b \in DOMAIN booking : booking[b].showtime_id = s}

RECURSIVE SeatsOf(_)
SeatsOf(B) ==
    IF B = {} THEN 0
    ELSE LET b == CHOOSE x \in B : TRUE IN booking[b].seats + SeatsOf(B \ {b})

Booked(s) == SeatsOf(BookingsOf(s))

\* The activations that have inserted their booking and not yet decremented.
Decrementing(s) == {f \in BagToSet(booking_calls) : f.pc = "update" /\ ShowtimeOf(f) = s}

----------------------------------------------------------------------------
(* C1: every stored showtime has 0 <= seats_available <= total_seats. *)
C1_SeatsInRange ==
    \A s \in DOMAIN showtime :
        /\ 0 <= showtime[s].seats_available
        /\ showtime[s].seats_available <= showtime[s].total_seats

(* C2: a valid create-booking request on an existing showtime that asks for *)
(* more seats than the seats_available it reads is answered with the error  *)
(* "Not enough seats available" (HTTP 400 in the code), inserts no booking, *)
(* leaves every showtime as it is and ends there.                           *)
C2_NotEnoughSeats ==
    [][\A data \in BookingInputs :
          ( /\ BookingValid(data)
            /\ References(data.showtime_id, showtime)
            /\ data.seats > showtime[data.showtime_id.oid].seats_available
            /\ booking_find(data) )
          => /\ resp' = HTTPException("create_booking", 400, "Not enough seats available")
             /\ UNCHANGED <<booking, showtime, booking_calls>>]_vars

\* C2 witness: a booking was refused for lack of seats on a stored showtime.
C2_Witness ==
    /\ resp = HTTPException("create_booking", 400, "Not enough seats available")
    /\ \E s \in DOMAIN showtime : showtime[s].seats_available < MaxSeats

C4_InsertBeforeDecrement ==
    /\ [](\A f \in BagToSet(booking_calls) :
             f.pc = "update" =>
                /\ f.result \in DOMAIN booking
                /\ booking[f.result] = booking_doc(f))
    /\ [][/\ \A s \in DOMAIN showtime :
                showtime'[s] # showtime[s] =>
                   \E f \in Decrementing(s) :
                      /\ f.result \in DOMAIN booking
                      /\ booking[f.result].showtime_id = s
                      /\ showtime'[s].seats_available =
                            showtime[s].seats_available - booking[f.result].seats
                      /\ CopiesIn(f, booking_calls') = CopiesIn(f, booking_calls) - 1
          /\ \A data \in BookingInputs :
                booking_find(data) => UNCHANGED <<booking, showtime>>]_vars

\* C4 witness: a booking is stored and its seats are not yet deducted.
C4_Witness ==
    \E f \in BagToSet(booking_calls) :
        /\ f.pc = "update"
        /\ f.result \in DOMAIN booking
        /\ showtime[ShowtimeOf(f)].seats_available = created[ShowtimeOf(f)]

(* C5: the decrement is applied whatever the showtime's seats_available is  *)
(* by then: an activation whose seats exceed what is left still lowers      *)
(* seats_available by its seats, below 0, and answers with success.  The    *)
(* oversold state itself is the witness.                                    *)
C5_DecrementNotRevalidated ==
    [][\A f \in BagToSet(booking_calls) :
          ( /\ f.pc = "update"
            /\ showtime[ShowtimeOf(f)].seats_available < f.data.seats
            /\ booking_update(f) )
          => /\ showtime'[ShowtimeOf(f)].seats_available =
                   showtime[ShowtimeOf(f)].seats_available - f.data.seats
             /\ showtime'[ShowtimeOf(f)].seats_available < 0
             /\ resp'.status = 200]_vars

\* C5 witness: two bookings that each passed the check are stored for one
\* showtime, both decrements are applied, and the seats booked exceed the
\* seats the showtime had: seats_available is below 0.
C5_Witness ==
    \E s \in DOMAIN showtime :
        /\ Cardinality(BookingsOf(s)) >= 2
        /\ \A b \in BookingsOf(s) : booking[b].seats <= created[s]
        /\ Decrementing(s) = {}
        /\ Booked(s) > created[s]
        /\ showtime[s].seats_available < 0

(* C6: every stored showtime has total_seats > 0, and the showtime a        *)
(* request stores has seats_available = total_seats when the request gave   *)
(* no seats_available.                                                      *)
C6_ShowtimeDefaults ==
    /\ [](\A s \in DOMAIN showtime : showtime[s].total_seats > 0)
    /\ [][\A f \in BagToSet(showtime_calls) :
             showtime_insert(f) =>
                \E s \in DOMAIN showtime' \ DOMAIN showtime :
                   /\ showtime'[s].total_seats = f.data.total_seats
                   /\ showtime'[s].total_seats > 0
                   /\ f.data.seats_available = None =>
                         showtime'[s].seats_available = showtime'[s].total_seats
                   /\ f.data.seats_available # None =>
                         showtime'[s].seats_available = f.data.seats_available[1]]_vars

\* C6 witness: a showtime was stored with all its seats available.
C6_Witness ==
    /\ resp.op = "create_showtime" /\ resp.status = 200
    /\ \E s \in DOMAIN showtime :
          /\ resp.id = Some(str(s))
          /\ showtime[s].total_seats = MaxSeats
          /\ showtime[s].seats_available = showtime[s].total_seats

(* C7 as stated: a create-showtime request (its body valid) whose movie_id  *)
(* or theater_id references no stored record is answered 400 "Invalid       *)
(* movie_id or theater_id" and stores no showtime.                          *)
C7_AsStated ==
    [][/\ \A data \in ShowtimeInputs :
             ( /\ ShowtimeValid(data)
               /\ ~References(data.movie_id, movie)
               /\ UNCHANGED showtime_calls
               /\ showtime_count_movie(data) )
             => /\ resp' = HTTPException("create_showtime", 400, "Invalid movie_id or theater_id")
                /\ UNCHANGED showtime
       /\ \A f \in BagToSet(showtime_calls) :
             ( /\ (f.movie_exists = 0 \/ ~References(f.data.theater_id, theater))
               /\ showtime_count_theater(f) )
             => /\ resp' = HTTPException("create_showtime", 400, "Invalid movie_id or theater_id")
                /\ showtime_calls' = Remove(showtime_calls, f)
                /\ UNCHANGED showtime]_vars

(* C7 amended: a create-showtime request whose movie_id and theater_id are  *)
(* both well-formed ids, one of which names no stored record when the       *)
(* handler counts it, is answered 400 "Invalid movie_id or theater_id"; a   *)
(* request with a malformed id is answered 400 "Invalid ID format" at the   *)
(* first malformed id the handler parses; neither stores a showtime.  Every *)
(* stored showtime references a stored movie and a stored theater.          *)
C7_Amended ==
    /\ [](\A s \in DOMAIN showtime :
             /\ showtime[s].movie_id \in DOMAIN movie
             /\ showtime[s].theater_id \in DOMAIN theater)
    /\ [][/\ \A data \in ShowtimeBodies({id_str \in IdInputs(movie) : ~id_str.hex}) :
                ( /\ ShowtimeValid(data)
                  /\ showtime_count_movie(data) )
                => /\ resp' = HTTPException("create_showtime", 400, "Invalid ID format")
                   /\ UNCHANGED <<showtime, showtime_calls>>
          /\ \A f \in BagToSet(showtime_calls) :
                /\ ( /\ ~f.data.theater_id.hex
                     /\ showtime_count_theater(f) )
                   => /\ resp' = HTTPException("create_showtime", 400, "Invalid ID format")
                      /\ showtime_calls' = Remove(showtime_calls, f)
                      /\ UNCHANGED showtime
                /\ ( /\ f.data.theater_id.hex
                     /\ (f.movie_exists = 0 \/ ~References(f.data.theater_id, theater))
                     /\ showtime_count_theater(f) )
                   => /\ resp' = HTTPException("create_showtime", 400,
                                               "Invalid movie_id or theater_id")
                      /\ showtime_calls' = Remove(showtime_calls, f)
                      /\ UNCHANGED showtime]_vars

\* C7 witness: a request with well-formed ids was refused for a reference to
\* no stored record, with a movie and a theater in the store.
C7_Witness ==
    /\ resp = HTTPException("create_showtime", 400, "Invalid movie_id or theater_id")
    /\ showtime = <<>>
    /\ showtime_calls = EmptyBag
    /\ movie # <<>>

(* C8 as stated: a create-booking request (its body valid) whose            *)
(* showtime_id resolves to no stored showtime is answered 404, inserts no   *)
(* booking and changes no showtime.                                         *)
C8_AsStated ==
    [][\A data \in BookingInputs :
          ( /\ BookingValid(data)
            /\ ~References(data.showtime_id, showtime)
            /\ booking_find(data) )
          => /\ resp' = HTTPException("create_booking", 404, "Showtime not found")
             /\ UNCHANGED <<booking, showtime, booking_calls>>]_vars

(* C8 amended: a create-booking request whose showtime_id is a well-formed  *)
(* id of no stored showtime is answered 404 "Showtime not found"; one whose *)
(* showtime_id is malformed is answered 400 "Invalid ID format"; neither    *)
(* inserts a booking or changes a showtime.  Every stored booking, and      *)
(* every activation past the lookup, references a stored showtime.          *)
C8_Amended ==
    /\ [](/\ \A b \in DOMAIN booking : booking[b].showtime_id \in DOMAIN showtime
          /\ \A f \in BagToSet(booking_calls) : ShowtimeOf(f) \in DOMAIN showtime)
    /\ [][\A data \in BookingInputs :
             /\ ( /\ BookingValid(data)
                  /\ data.showtime_id.hex
                  /\ ~References(data.showtime_id, showtime)
                  /\ booking_find(data) )
                => /\ resp' = HTTPException("create_booking", 404, "Showtime not found")
                   /\ UNCHANGED <<booking, showtime, booking_calls>>
             /\ ( /\ BookingValid(data)
                  /\ ~data.showtime_id.hex
                  /\ booking_find(data) )
                => /\ resp' = HTTPException("create_booking", 400, "Invalid ID format")
                   /\ UNCHANGED <<booking, showtime, booking_calls>>]_vars

\* C8 witness: a booking for a well-formed id of no showtime was refused with
\* 404 while a showtime was stored.
C8_Witness ==
    /\ resp = HTTPException("create_booking", 404, "Showtime not found")
    /\ showtime # <<>>
    /\ booking = <<>>

\* The display fields a listing is to give for a showtime document: those of
\* the movie and the theater it references, None for a reference to nothing.
TitleOf(d) == IF d.movie_id \in DOMAIN movie THEN Some(movie[d.movie_id].title) ELSE None
NameOf(d) == IF d.theater_id \in DOMAIN theater THEN Some(theater[d.theater_id].name) ELSE None
LocationOf(d) ==
    IF d.theater_id \in DOMAIN theater THEN Some(theater[d.theater_id].location) ELSE None

\* One entry of the showtime listing per stored showtime, each expanded.
ShowtimesExpanded ==
    out.op = "list_showtimes" =>
        /\ out.status = 200
        /\ {out.body[k].id.oid : k \in 1..Len(out.body)} = DOMAIN showtime
        /\ Len(out.body) = Cardinality(DOMAIN showtime)
        /\ \A k \in 1..Len(out.body) :
              LET e == out.body[k]
                  d == showtime[e.id.oid]
              IN  /\ e.movie_id = str(d.movie_id)
                  /\ e.theater_id = str(d.theater_id)
                  /\ e.movie_title = TitleOf(d)
                  /\ e.theater_name = NameOf(d)
                  /\ e.theater_location = LocationOf(d)

\* One entry of the booking listing per stored booking, its fields in want
\* expanded over booking -> showtime -> movie / theater.
BookingsExpanded(want) ==
    out.op = "list_bookings" =>
        /\ out.status = 200
        /\ {out.body[k].id.oid : k \in 1..Len(out.body)} = DOMAIN booking
        /\ Len(out.body) = Cardinality(DOMAIN booking)
        /\ \A k \in 1..Len(out.body) :
              LET e == out.body[k]
                  b == booking[e.id.oid]
                  dangling == b.showtime_id \notin DOMAIN showtime
                  d == showtime[b.showtime_id]
                  expected == [movie_title |-> IF dangling THEN None ELSE TitleOf(d),
                               theater_name |-> IF dangling THEN None ELSE NameOf(d),
                               theater_location |-> IF dangling THEN None ELSE LocationOf(d)]
              IN  \A field \in want : field \in DOMAIN e /\ e[field] = expected[field]

(* C9 as stated: every entry of the showtime listing gives the title of its *)
(* movie and the name and location of its theater, every entry of the       *)
(* booking listing gives the same three fields over booking -> showtime ->  *)
(* movie / theater, and a missing record gives None, not a failure.         *)
C9_AsStated ==
    /\ ShowtimesExpanded
    /\ BookingsExpanded({"movie_title", "theater_name", "theater_location"})

(* C9 amended: as stated for the showtime listing; every entry of the       *)
(* booking listing gives movie_title and theater_name over booking ->       *)
(* showtime -> movie / theater and has no theater_location field; a missing *)
(* record gives None, not a failure.                                        *)
C9_Amended ==
    /\ ShowtimesExpanded
    /\ BookingsExpanded({"movie_title", "theater_name"})
    /\ out.op = "list_bookings" =>
          \A k \in 1..Len(out.body) : "theater_location" \notin DOMAIN out.body[k]

\* C9 witness: a booking listing with an entry whose showtime is gone and an
\* entry expanded over both hops.
C9_Witness ==
    /\ out.op = "list_bookings"
    /\ \E k \in 1..Len(out.body) :
          /\ out.body[k].showtime_id \notin DOMAIN showtime
          /\ out.body[k].movie_title = None
          /\ out.body[k].theater_name = None
    /\ \E k \in 1..Len(out.body) :
          /\ out.body[k].movie_title # None
          /\ out.body[k].theater_name # None

(* C10: for every showtime, the seats taken off since it was stored are at  *)
(* most the seats of the bookings stored for it, and exactly those seats    *)
(* when no request for it is between its insert and its decrement;          *)
(* seats_available never increases and total_seats never changes.           *)
C10_SeatAccounting ==
    /\ [](\A s \in DOMAIN showtime :
             /\ created[s] - showtime[s].seats_available <= Booked(s)
             /\ Decrementing(s) = {} =>
                   created[s] - showtime[s].seats_available = Booked(s))
    /\ [][\A s \in DOMAIN showtime :
             /\ showtime'[s].seats_available <= showtime[s].seats_available
             /\ showtime'[s].total_seats = showtime[s].total_seats]_vars

\* C10 witness: two bookings are stored for a showtime, one of them not yet
\* deducted: the seats taken off are fewer than the seats booked.
C10_Witness ==
    \E s \in DOMAIN showtime :
        /\ Cardinality(BookingsOf(s)) = 2
        /\ Decrementing(s) # {}
        /\ 0 < created[s] - showtime[s].seats_available
        /\ created[s] - showtime[s].seats_available < Booked(s)

====
